---- MODULE Spec2Model ----
(***************************************************************************)
(* Model of confluence-markdown-export.py: the filename sanitizer, the     *)
(* construction of the output paths, the three-stage per-page pipeline     *)
(* with its retry blocks, the recursive page walker and the space loop.    *)
(*                                                                         *)
(* Strings are sequences of one-character strings, so that re.sub,         *)
(* str.strip, str.replace, str.removesuffix and os.path.join are modelled  *)
(* by what they do to the characters.                                      *)
(***************************************************************************)
EXTENDS Integers, Sequences, FiniteSets, TLC

(***************************************************************************)
(* Characters and character classes of Exporter.__sanitize                  *)
(***************************************************************************)
\* the class [\\/\[\] ] of the first re.sub
SepClass == {"\\", "/", "[", "]", " "}

\* the class \s of the second and fifth re.sub (the whitespace of the alphabet)
WsClass == {" ", "\t"}

\* the characters removed from both ends by page_title.strip("-. ")
StripClass == {"-", ".", " "}

\* index of the last character of the maximal run of cls-characters that
\* starts at i (i - 1 when s[i] is not in cls)
RECURSIVE RunEnd(_, _, _)
RunEnd(s, i, cls) ==
    IF i <= Len(s) /\ s[i] \in cls THEN RunEnd(s, i + 1, cls) ELSE i - 1

\* re.sub of a pattern "one class, repeated at least min times" by rep:
\* every maximal run of at least min characters of cls becomes rep
RECURSIVE SubRunsFrom(_, _, _, _, _)
SubRunsFrom(s, i, cls, min, rep) ==
    IF i > Len(s) THEN <<>>
    ELSE LET j == RunEnd(s, i, cls) IN
         IF j - i + 1 >= min
            THEN rep \o SubRunsFrom(s, j + 1, cls, min, rep)
            ELSE IF j >= i
                    THEN SubSeq(s, i, j) \o SubRunsFrom(s, j + 1, cls, min, rep)
                    ELSE <<s[i]>> \o SubRunsFrom(s, i + 1, cls, min, rep)

\* (here and below, "CHOOSE r \in {F(v) : v \in {s}} : TRUE" is F(s) with the
\* argument evaluated once: the result of a singleton set is its only element)
SubRuns(s, cls, min, rep) ==
    CHOOSE r \in {SubRunsFrom(v, 1, cls, min, rep) : v \in {s}} : TRUE

\* re.sub("-(-|\\s)+-", "-", s): a hyphen, a non-empty greedy run of hyphens
\* and whitespace, and a closing hyphen (found by backtracking from the end
\* of the run) become one hyphen
RECURSIVE SubHyphenGroupFrom(_, _)
SubHyphenGroupFrom(s, i) ==
    IF i > Len(s) THEN <<>>
    ELSE IF s[i] # "-" THEN <<s[i]>> \o SubHyphenGroupFrom(s, i + 1)
    ELSE LET e == RunEnd(s, i + 1, {"-"} \cup WsClass)
             closers == {k \in (i + 2)..e : s[k] = "-"}
         IN  IF closers = {}
                THEN <<s[i]>> \o SubHyphenGroupFrom(s, i + 1)
                ELSE LET j == CHOOSE k \in closers : \A m \in closers : m <= k
                     IN  <<"-">> \o SubHyphenGroupFrom(s, j + 1)

SubHyphenGroup(s) ==
    CHOOSE r \in {SubHyphenGroupFrom(v, 1) : v \in {s}} : TRUE

\* str.rstrip(chars) and str.strip(chars): drop the characters of cls from
\* the end, and from both ends
KeptIdx(v, cls) == {k \in 1..Len(v) : v[k] \notin cls}

MinOf(S) == CHOOSE k \in S : \A m \in S : k <= m

MaxOf(S) == CHOOSE k \in S : \A m \in S : m <= k

RStrip(s, cls) ==
    CHOOSE r \in {IF KeptIdx(v, cls) = {} THEN <<>>
                  ELSE SubSeq(v, 1, MaxOf(KeptIdx(v, cls))) : v \in {s}} : TRUE

Strip(s, cls) ==
    CHOOSE r \in {IF KeptIdx(v, cls) = {} THEN <<>>
                  ELSE SubSeq(v, MinOf(KeptIdx(v, cls)), MaxOf(KeptIdx(v, cls))) :
                  v \in {s}} : TRUE

\* Exporter.__sanitize: the five substitutions in order, then the strip
sanitize(page_title) ==
    LET t1 == SubRuns(page_title, SepClass, 1, <<"-">>)
        t2 == SubRuns(t1, WsClass, 1, <<"-">>)
        t3 == SubRuns(t2, {"."}, 2, <<".">>)
        t4 == SubRuns(t3, {"-"}, 2, <<"-">>)
        t5 == SubHyphenGroup(t4)
    IN  Strip(t5, StripClass)

(***************************************************************************)
(* Path helpers: os.path.join, os.path.dirname, str.replace, removesuffix  *)
(***************************************************************************)
\* os.path.join of two components (posixpath): a component that starts with
\* the separator replaces the path, otherwise it is appended after exactly
\* one separator
Join2(a, b) ==
    IF b # <<>> /\ Head(b) = "/" THEN b
    ELSE IF a = <<>> \/ a[Len(a)] = "/" THEN a \o b
    ELSE a \o <<"/">> \o b

\* os.path.join(a, segs[k], ..., segs[n])
RECURSIVE JoinFrom(_, _, _)
JoinFrom(a, segs, k) ==
    IF k > Len(segs) THEN a
    ELSE CHOOSE r \in {JoinFrom(h, segs, k + 1) : h \in {Join2(a, segs[k])}} : TRUE

\* os.path.join(a, *segs)
Join(a, segs) ==
    CHOOSE r \in {JoinFrom(x, v, 1) : x \in {a}, v \in {segs}} : TRUE

\* TRUE when pat occurs in s at index i
MatchAt(s, i, pat) ==
    /\ i + Len(pat) - 1 <= Len(s)
    /\ \A k \in 1..Len(pat) : s[i + k - 1] = pat[k]

\* str.replace(pat, rep): every non-overlapping occurrence, left to right
RECURSIVE ReplaceFrom(_, _, _, _)
ReplaceFrom(s, i, pat, rep) ==
    IF i > Len(s) THEN <<>>
    ELSE IF MatchAt(s, i, pat)
            THEN rep \o ReplaceFrom(s, i + Len(pat), pat, rep)
            ELSE <<s[i]>> \o ReplaceFrom(s, i + 1, pat, rep)

Replace(s, pat, rep) ==
    CHOOSE r \in {ReplaceFrom(v, 1, pat, rep) : v \in {s}} : TRUE

\* str.removesuffix(suf)
RemoveSuffix(s, suf) ==
    CHOOSE r \in {IF Len(v) >= Len(suf) /\ MatchAt(v, Len(v) - Len(suf) + 1, suf)
                     THEN SubSeq(v, 1, Len(v) - Len(suf)) ELSE v : v \in {s}} : TRUE

\* os.path.dirname (posixpath): everything before the last separator, with
\* trailing separators removed unless the head is only separators
SepIdx(v) == {k \in 1..Len(v) : v[k] = "/"}

Dirname(p) ==
    CHOOSE r \in
        {IF SepIdx(v) = {} THEN <<>>
         ELSE IF \A k \in 1..MaxOf(SepIdx(v)) : v[k] = "/"
                 THEN SubSeq(v, 1, MaxOf(SepIdx(v)))
                 ELSE RStrip(SubSeq(v, 1, MaxOf(SepIdx(v))), {"/"}) : v \in {p}} : TRUE

\* the extensions used by __dump_page
ExtDoc == <<".", "d", "o", "c">>
ExtDocx == <<".", "d", "o", "c", "x">>
ExtMd == <<".", "m", "d">>


(***************************************************************************)
(* Bounds and inputs                                                       *)
(***************************************************************************)
\* stage failures the environment injects over the whole behaviour
MaxFailures == 2
\* invocations of the program on the same output directory
MaxRuns == 2
\* longest title given to the sanitizer on its own
MaxTitleLen == 4

\* space.get("homepage") is None
NoHome == 0

\* the out_dir argument of the command line
OutDir == <<"o">>

KeyS == <<"s">>
KeyT == <<"t">>

\* titles get_page_by_id may return
Titles ==
    { <<"a">>, <<"a", "/", "b">>, <<"a", "-", "b">>, <<"h", "o", "m", "e">>,
      <<"a", ".", "d", "o", "c">>, <<".", ".">> }

\* the characters of the titles given to the sanitizer on its own
Alphabet == {"a", ".", "-", "/", "\\", " ", "[", "\t"}

\* what a file holds: the index (kind "index", its link entries in order) or
\* a stage's output (the page id whose content it carries; whole = FALSE
\* for a file left behind by a stage that failed while writing)
NoFile == [kind |-> "none", id |-> 0, entries |-> <<>>, whole |-> FALSE]
IndexFile(entries) ==
    [kind |-> "index", id |-> 0, entries |-> entries, whole |-> TRUE]
StageFile(kind, id, whole) ==
    [kind |-> kind, id |-> id, entries |-> <<>>, whole |-> whole]

VARIABLES
    page_titles,   \* remote API: page["title"] of each page id
    child_lists,   \* remote API: get_child_id_list of each page id
    flaky,         \* the page ids whose stage calls can raise
    spaces,        \* remote API: ret["results"] of get_all_spaces
    space_filter,  \* self.__space (<<>> when --space is not given)
    fs,            \* the files under out_dir: path -> content
    seen,          \* self.__seen
    stack,         \* the active __dump_page calls, innermost last
    si,            \* index of the next space of the for loop in dump
    status,        \* "running", "done" or "aborted" (uncaught exception)
    err,           \* which exception aborted the run
    events,        \* history: the calls made in this run, in order
    failures,      \* stage failures injected so far
    run,           \* number of this invocation
    san            \* the sanitizer on its own: title in, result out

vars == <<page_titles, child_lists, flaky, spaces, space_filter, fs, seen, stack,
          si, status, err, events, failures, run, san>>

walk_vars == <<page_titles, child_lists, flaky, spaces, space_filter, fs, seen,
               stack, si, status, err, events, failures, run>>

NoFilter == <<>>

IsFile(f, path) == path \in DOMAIN f

Content(f, path) == IF IsFile(f, path) THEN f[path] ELSE NoFile

\* open(path, "w").write(...) / write_text: create or overwrite
WriteFile(f, path, content) ==
    [p \in DOMAIN f \cup {path} |-> IF p = path THEN content ELSE f[p]]

(***************************************************************************)
(* Paths of one page (lines 108-113) and of the index (lines 183-185)      *)
(***************************************************************************)
\* list(map(self.__sanitize, parents)), built left to right
RECURSIVE MapSanitize(_, _, _)
MapSanitize(parents, k, acc) ==
    IF k > Len(parents) THEN acc
    ELSE CHOOSE r \in {MapSanitize(parents, k + 1, a) :
                          a \in {Append(acc, sanitize(parents[k]))}} : TRUE

sanitized_parents(parents) ==
    CHOOSE r \in {MapSanitize(v, 1, <<>>) : v \in {parents}} : TRUE

\* mutant: the page is filed as "home" inside the directory of its title
page_location_HomeDir(parents, page_title) ==
    Append(Append(sanitized_parents(parents), sanitize(page_title)),
           <<"h", "o", "m", "e">>)

page_location(parents, page_title) ==
    Append(sanitized_parents(parents), sanitize(page_title))

page_filename_doc(parents, page_title) ==
    Join(OutDir, page_location(parents, page_title)) \o ExtDoc

page_filename_docx(doc) == Replace(doc, ExtDoc, ExtDocx)

page_filename_md(doc) == Replace(doc, ExtDoc, ExtMd)

page_filename_media(doc) == RemoveSuffix(doc, ExtDoc)

home_md_path(space_key) ==
    Join(OutDir, Append(sanitized_parents(<<space_key>>), <<"h", "o", "m", "e">>))
        \o ExtMd

\* mutant: the index is overwritten with the new entry instead of extended
AppendIndexEntry_Overwrite(f, home_md, media) ==
    WriteFile(f, home_md,
        IndexFile(<<Replace(media, Dirname(home_md) \o <<"/">>, <<>>)>>))

\* lines 117-120: append the link entry, then strip "<index dir>/" from the
\* whole text of the index
RECURSIVE StripIndexPrefix(_, _, _, _)
StripIndexPrefix(entries, prefix, k, acc) ==
    IF k > Len(entries) THEN acc
    ELSE CHOOSE r \in {StripIndexPrefix(entries, prefix, k + 1, a) :
                          a \in {Append(acc, Replace(entries[k], prefix, <<>>))}} : TRUE

AppendIndexEntry(f, home_md, media) ==
    CHOOSE r \in
        {WriteFile(f, home_md, IndexFile(StripIndexPrefix(new, prefix, 1, <<>>))) :
            prefix \in {Dirname(home_md) \o <<"/">>},
            new \in {Append(f[home_md].entries, media)}} : TRUE

(***************************************************************************)
(* The three stages (lines 48-91) and the except blocks (lines 126-161)    *)
(***************************************************************************)
Stages == <<"download", "modernize", "convert">>

\* the stage whose existence check follows stage stg ("mark": line 164)
NextStage(stg) ==
    CASE stg = "download" -> "modernize"
      [] stg = "modernize" -> "convert"
      [] stg = "convert" -> "mark"

\* mutant: the except block re-runs the failed stage only
RetryCalls_OnlyFailed(stg) == <<stg>>

\* the calls of the except block of stage stg, in order
RetryCalls(stg) ==
    CASE stg = "download" -> <<"download">>
      [] stg = "modernize" -> <<"download", "modernize">>
      [] stg = "convert" -> <<"download", "modernize", "convert">>

\* the file a stage writes for the call described by frame fr
StagePath(op, fr) ==
    CASE op = "download" -> fr.doc
      [] op = "modernize" -> fr.docx
      [] op = "convert" -> fr.md

\* what a stage writes: __download the bytes of the page id, __modernize
\* and __convert the conversion of the file they read
StageContent(op, f, fr, whole) ==
    CASE op = "download" -> StageFile("doc", fr.src_id, whole)
      [] op = "modernize" -> StageFile("docx", Content(f, fr.doc).id, whole)
      [] op = "convert" -> StageFile("md", Content(f, fr.docx).id, whole)

\* a call returns, raises before it opened its output file, or raises after
\* it opened it (requests reads the body inside the with block; copyfile
\* and the post-processing of the markup write before they can fail)
Outcomes == {"ok", "fail", "fail_partial"}

StageEffect(op, out, f, fr) ==
    CASE out = "ok" -> WriteFile(f, StagePath(op, fr), StageContent(op, f, fr, TRUE))
      [] out = "fail" -> f
      [] out = "fail_partial" ->
            WriteFile(f, StagePath(op, fr), StageContent(op, f, fr, FALSE))

\* history: one call. op is "space" (the index of a space is created),
\* "visit" (lines 99-120 ran for a page) or a stage; blk is "try" or "retry";
\* stage is the stage whose try/except the call belongs to; path is the file
\* the call writes (for a visit: the extension-less path put into the index)
Event(op, id, ok, blk, stage, path) ==
    [op |-> op, id |-> id, ok |-> ok, blk |-> blk, stage |-> stage, path |-> path]

(***************************************************************************)
(* Call frames of __dump_page                                              *)
(***************************************************************************)
NoSnap == [all3 |-> FALSE, doc |-> NoFile, docx |-> NoFile, md |-> NoFile]

\* the frame of a call __dump_page(src_id, parents, home_md) at line 94
NewFrame(src_id, parents, home_md) ==
    [src_id |-> src_id, parents |-> parents, home_md |-> home_md,
     pc |-> "enter", stage |-> "download", k |-> 1,
     page_title |-> <<>>, child_ids |-> <<>>,
     doc |-> <<>>, docx |-> <<>>, md |-> <<>>, media |-> <<>>,
     i |-> 1, snap |-> NoSnap]

Top == stack[Len(stack)]

SetTop(fr) == [stack EXCEPT ![Len(stack)] = fr]

Running == status = "running"

InFrame(pc) == Running /\ stack # <<>> /\ Top.pc = pc

\* an uncaught exception: it leaves every __dump_page, __dump_space and dump
Raise(kind) ==
    /\ status' = "aborted"
    /\ err' = kind
    /\ stack' = <<>>

\* mutant: the duplicate check is left out
IsDuplicate_NoCheck(src_id, seen_set) == src_id \in {}

\* line 94: the guard of the duplicate check
IsDuplicate(src_id, seen_set) == src_id \in seen_set

\* lines 94-97: raise ExportException("Duplicate Page ID Found!")
DumpPageDuplicate ==
    /\ InFrame("enter")
    /\ IsDuplicate(Top.src_id, seen)
    /\ Raise("duplicate")
    /\ UNCHANGED <<page_titles, child_lists, flaky, spaces, space_filter, fs, seen,
                   si, events, failures, run, san>>

\* lines 99-120: fetch the page and its child ids, compute the paths, make
\* the directory, append the index entry
DumpPageEnter ==
    /\ InFrame("enter")
    /\ ~IsDuplicate(Top.src_id, seen)
    /\ \E page_title \in {page_titles[Top.src_id]},
          child_ids \in {child_lists[Top.src_id]} :
       \E doc \in {page_filename_doc(Top.parents, page_title)} :
       \E docx \in {page_filename_docx(doc)},
          md \in {page_filename_md(doc)},
          media \in {page_filename_media(doc)} :
          LET snap == [all3 |-> IsFile(fs, doc) /\ IsFile(fs, docx) /\ IsFile(fs, md),
                       doc |-> Content(fs, doc), docx |-> Content(fs, docx),
                       md |-> Content(fs, md)]
          IN  /\ fs' = AppendIndexEntry(fs, Top.home_md, media)
              /\ stack' = SetTop([Top EXCEPT !.pc = "stage", !.stage = "download",
                                             !.page_title = page_title,
                                             !.child_ids = child_ids,
                                             !.doc = doc, !.docx = docx,
                                             !.md = md, !.media = media,
                                             !.snap = snap])
              /\ events' = Append(events, Event("visit", Top.src_id, TRUE, "enter", "none", media))
    /\ UNCHANGED <<page_titles, child_lists, flaky, spaces, space_filter, seen,
                   si, status, err, failures, run, san>>

\* one call of a stage function from block blk: on success go to okpc; on
\* failure go to the except block, or propagate when already inside one
Call(op, blk, onOk, onFail) ==
    \E out \in Outcomes :
        /\ out # "ok" => failures < MaxFailures /\ Top.src_id \in flaky
        /\ failures' = IF out = "ok" THEN failures ELSE failures + 1
        /\ events' = Append(events, Event(op, Top.src_id, out = "ok", blk, Top.stage,
                                         StagePath(op, Top)))
        /\ fs' = StageEffect(op, out, fs, Top)
        /\ IF out = "ok"
              THEN /\ stack' = SetTop(onOk)
                   /\ UNCHANGED <<status, err>>
              ELSE IF onFail.pc = "raise"
                      THEN Raise("stage")
                      ELSE /\ stack' = SetTop(onFail)
                           /\ UNCHANGED <<status, err>>

\* the position after stage stg is done: the next existence check
AfterStage(fr, stg) ==
    IF NextStage(stg) = "mark"
       THEN [fr EXCEPT !.pc = "mark"]
       ELSE [fr EXCEPT !.pc = "stage", !.stage = NextStage(stg)]

\* lines 123-125, 133-135, 144-150: skip the stage when its output is a
\* file, else try it once; a failure enters the except block after the sleep
StageAttempt(stg) ==
    /\ InFrame("stage")
    /\ Top.stage = stg
    /\ IF IsFile(fs, StagePath(stg, Top))
          THEN /\ stack' = SetTop(AfterStage(Top, stg))
               /\ UNCHANGED <<fs, events, failures, status, err>>
          ELSE Call(stg, "try", AfterStage(Top, stg),
                    [Top EXCEPT !.pc = "retry", !.k = 1])
    /\ UNCHANGED <<page_titles, child_lists, flaky, spaces, space_filter, seen, si,
                   run, san>>

\* mutant: an exception inside an except block is swallowed and the walk goes on
OnRetryFailure_Skip(fr, stg) == AfterStage(fr, stg)

\* an exception inside an except block is not caught: it propagates
OnRetryFailure(fr, stg) == [fr EXCEPT !.pc = "raise"]

\* lines 130, 140-141, 155-161: the k-th call of the except block of stage
\* stg; an exception here is not caught
RetryCall(stg) ==
    /\ InFrame("retry")
    /\ Top.stage = stg
    /\ Call(RetryCalls(stg)[Top.k], "retry",
            IF Top.k < Len(RetryCalls(stg))
               THEN [Top EXCEPT !.k = Top.k + 1]
               ELSE AfterStage(Top, stg),
            OnRetryFailure(Top, stg))
    /\ UNCHANGED <<page_titles, child_lists, flaky, spaces, space_filter, seen, si,
                   run, san>>

StageDownload == StageAttempt("download")
StageModernize == StageAttempt("modernize")
StageConvert == StageAttempt("convert")
RetryDownload == RetryCall("download")
RetryModernize == RetryCall("modernize")
RetryConvert == RetryCall("convert")

\* line 164: self.__seen.add(page_id)
MarkSeen ==
    /\ InFrame("mark")
    /\ seen' = seen \cup {Top.src_id}
    /\ stack' = SetTop([Top EXCEPT !.pc = "children", !.i = 1])
    /\ UNCHANGED <<page_titles, child_lists, flaky, spaces, space_filter, fs, si,
                   status, err, events, failures, run, san>>

\* mutant: the children are taken from the end of the list
LoopChild_Reversed(child_ids, i) == child_ids[Len(child_ids) + 1 - i]

\* the child the for loop of line 167 takes at its i-th iteration
LoopChild(child_ids, i) == child_ids[i]

\* the parents argument of the recursive call (line 170)
ChildParents(parents, page_title) ==
    Append(sanitized_parents(parents), page_title)

\* lines 167-172: the next iteration of the loop calls __dump_page
RecurseChild ==
    /\ InFrame("children")
    /\ Top.i <= Len(Top.child_ids)
    /\ stack' = Append(SetTop([Top EXCEPT !.i = Top.i + 1]),
                       NewFrame(LoopChild(Top.child_ids, Top.i),
                                ChildParents(Top.parents, Top.page_title),
                                Top.home_md))
    /\ UNCHANGED <<page_titles, child_lists, flaky, spaces, space_filter, fs, seen,
                   si, status, err, events, failures, run, san>>

\* the loop of line 167 is over: __dump_page returns
ReturnFromPage ==
    /\ InFrame("children")
    /\ Top.i > Len(Top.child_ids)
    /\ stack' = SubSeq(stack, 1, Len(stack) - 1)
    /\ UNCHANGED <<page_titles, child_lists, flaky, spaces, space_filter, fs, seen,
                   si, status, err, events, failures, run, san>>

(***************************************************************************)
(* dump and __dump_space (lines 174-200)                                   *)
(***************************************************************************)
AtSpace == Running /\ stack = <<>> /\ si <= Len(spaces)

\* line 199
Selected(space) == space_filter = NoFilter \/ space.key = space_filter

\* line 199 false: the space is not the requested one
DumpSkipSpace ==
    /\ AtSpace
    /\ ~Selected(spaces[si])
    /\ si' = si + 1
    /\ UNCHANGED <<page_titles, child_lists, flaky, spaces, space_filter, fs, seen,
                   stack, status, err, events, failures, run, san>>

\* lines 177-179: a space without a home page is skipped
DumpSpaceNoHome ==
    /\ AtSpace
    /\ Selected(spaces[si])
    /\ spaces[si].homepage = NoHome
    /\ si' = si + 1
    /\ UNCHANGED <<page_titles, child_lists, flaky, spaces, space_filter, fs, seen,
                   stack, status, err, events, failures, run, san>>

\* lines 182-188: write the index afresh and walk from the home page
DumpSpace ==
    /\ AtSpace
    /\ Selected(spaces[si])
    /\ spaces[si].homepage # NoHome
    /\ LET home_md == home_md_path(spaces[si].key)
       IN  /\ fs' = WriteFile(fs, home_md, IndexFile(<<>>))
           /\ stack' = <<NewFrame(spaces[si].homepage, <<spaces[si].key>>, home_md)>>
    /\ si' = si + 1
    /\ events' = Append(events, Event("space", si, TRUE, "dump", "none",
                                      home_md_path(spaces[si].key)))
    /\ UNCHANGED <<page_titles, child_lists, flaky, spaces, space_filter, seen,
                   status, err, failures, run, san>>

\* the loop of line 198 is over: dump returns and the process exits
DumpFinish ==
    /\ Running
    /\ stack = <<>>
    /\ si > Len(spaces)
    /\ status' = "done"
    /\ UNCHANGED <<page_titles, child_lists, flaky, spaces, space_filter, fs, seen,
                   stack, si, err, events, failures, run, san>>

\* the program is started again on the same output directory and the same
\* remote content (lines 218-225: a new Exporter, an empty seen-set)
Restart ==
    /\ status \in {"done", "aborted"}
    /\ run < MaxRuns
    /\ run' = run + 1
    /\ status' = "running"
    /\ err' = "none"
    /\ seen' = {}
    /\ stack' = <<>>
    /\ si' = 1
    /\ events' = <<>>
    /\ UNCHANGED <<page_titles, child_lists, flaky, spaces, space_filter, fs,
                   failures, san>>

(***************************************************************************)
(* The sanitizer on its own                                                *)
(***************************************************************************)
TitlesUpTo(n) == UNION {[1..m -> Alphabet] : m \in 0..n}

\* one call of Exporter.__sanitize on the last result (the title at first)
Sanitize ==
    /\ san.calls < 2
    /\ san' = [san EXCEPT !.out = sanitize(san.out), !.calls = san.calls + 1]
    /\ UNCHANGED walk_vars

(***************************************************************************)
(* Specifications                                                          *)
(***************************************************************************)
NoSan == [title |-> <<>>, out |-> <<>>, calls |-> 2]

\* the page ids of the remote content
Pages == {1, 2, 3, 4}

\* the two spaces get_all_spaces returns: the first has home page 1, the
\* second has no home page or has page 4 as its home page
SpaceResults ==
    { <<[key |-> KeyS, homepage |-> 1], [key |-> KeyT, homepage |-> h]>> :
        h \in {NoHome, 4} }

\* the child-id lists of pages 1..4 in the page graphs walked: two trees
\* with different listing orders, an id listed twice, a cycle, a page that
\* is its own child, a page with two parents
Sites ==
    { << <<2, 3>>, <<4>>, <<>>, <<>> >>,
      << <<3, 2>>, <<>>, <<4>>, <<>> >>,
      << <<2, 2>>, <<>>, <<>>, <<>> >>,
      << <<2>>, <<1>>, <<>>, <<>> >>,
      << <<1>>, <<>>, <<>>, <<>> >>,
      << <<2, 3>>, <<3>>, <<>>, <<>> >> }

\* the titles of pages 1..4 when the titles are fixed
FixedTitles == << <<"a">>, <<"a", "/", "b">>, <<"b">>, <<"a", "-", "b">> >>

\* the page graphs used when the titles vary: a chain and a fan of pages
\* 1..3, and a cycle
Shapes ==
    { << <<2>>, <<3>>, <<>> >>,
      << <<2, 3>>, <<>>, <<>> >>,
      << <<2>>, <<1>>, <<>> >> }

\* the titles of pages 1..3 when they vary: any titles, no two pages of a
\* space with the same title
TitleChoices ==
    {t \in [1..3 -> Titles] : \A p, q \in 1..3 : t[p] = t[q] => p = q}

InitRun ==
    /\ fs = <<>>
    /\ seen = {}
    /\ stack = <<>>
    /\ si = 1
    /\ status = "running"
    /\ err = "none"
    /\ events = <<>>
    /\ failures = 0
    /\ run = 1
    /\ san = NoSan

\* the page graphs of Sites, fixed titles, any page can fail
Init ==
    /\ InitRun
    /\ page_titles = FixedTitles
    /\ child_lists \in Sites
    /\ flaky = Pages
    /\ spaces \in SpaceResults
    /\ space_filter \in {NoFilter, KeyT}

\* the page graphs of Shapes, any titles, the last page can fail
InitNames ==
    /\ InitRun
    /\ page_titles \in TitleChoices
    /\ child_lists \in Shapes
    /\ flaky = {3}
    /\ spaces = <<[key |-> KeyT, homepage |-> NoHome], [key |-> KeyS, homepage |-> 1]>>
    /\ space_filter \in {NoFilter, KeyS}

InitSan ==
    /\ page_titles = <<>>
    /\ child_lists = <<>>
    /\ flaky = {}
    /\ spaces = <<>>
    /\ space_filter = NoFilter
    /\ fs = <<>>
    /\ seen = {}
    /\ stack = <<>>
    /\ si = 1
    /\ status = "done"
    /\ err = "none"
    /\ events = <<>>
    /\ failures = 0
    /\ run = MaxRuns
    /\ \E t \in TitlesUpTo(MaxTitleLen) : san = [title |-> t, out |-> t, calls |-> 0]

Next ==
    \/ DumpSkipSpace
    \/ DumpSpaceNoHome
    \/ DumpSpace
    \/ DumpFinish
    \/ DumpPageDuplicate
    \/ DumpPageEnter
    \/ StageDownload
    \/ StageModernize
    \/ StageConvert
    \/ RetryDownload
    \/ RetryModernize
    \/ RetryConvert
    \/ MarkSeen
    \/ RecurseChild
    \/ ReturnFromPage
    \/ Restart

NextSan == Sanitize

Spec == Init /\ [][Next]_vars

SpecNames == InitNames /\ [][Next]_vars

SpecSan == InitSan /\ [][NextSan]_vars

\* the walk with the scheduling of a sequential program: it keeps running
FairSpec == Spec /\ WF_vars(Next)

(***************************************************************************)
(* Properties                                                              *)
(***************************************************************************)
StageOps == {"download", "modernize", "convert"}

StageIdx(op) == CHOOSE k \in 1..Len(Stages) : Stages[k] = op

Last(seq) == seq[Len(seq)]

IsVisit(e) == e.op = "visit"

Visits == SelectSeq(events, IsVisit)

VisitIds == [k \in 1..Len(Visits) |-> Visits[k].id]

Range(seq) == {seq[k] : k \in 1..Len(seq)}

DistinctIds(seq) == \A i, j \in 1..Len(seq) : seq[i] = seq[j] => i = j

IsPrefix(a, b) == Len(a) <= Len(b) /\ \A k \in 1..Len(a) : a[k] = b[k]

\* a call was made and it raised
CallFailed == events' # events /\ ~Last(events').ok

\* ---- C1 ----
VisitedOnce == DistinctIds(VisitIds)

\* C1: each page id is exported at most once in a run; a call of
\* __dump_page with an id of the seen-set raises the duplicate-page error
\* without having touched the index or any file and without any call, and
\* after that error the run does nothing more (the error is not retried).
C1_DuplicateAborts ==
    [][ /\ (InFrame("enter") /\ Top.src_id \in seen) =>
               /\ status' = "aborted"
               /\ err' = "duplicate"
               /\ stack' = <<>>
               /\ UNCHANGED <<fs, events, seen, si>>
        /\ (status = "aborted" /\ err = "duplicate" /\ run' = run) =>
               UNCHANGED vars
        /\ VisitedOnce' ]_vars

\* a page was exported, reached a second time and the run was aborted
C1_Witness ==
    /\ status = "aborted"
    /\ err = "duplicate"
    /\ Len(Visits) >= 2
    /\ \A e \in Range(Visits) : e.id \in seen

\* ---- C3 ----
TryFailures(id, stg) ==
    {k \in 1..Len(events) : /\ events[k].blk = "try" /\ events[k].op = stg
                            /\ events[k].id = id /\ ~events[k].ok}

\* every except block starts with a call of __download
RetryBlocks(id, stg) ==
    {k \in 1..Len(events) : /\ events[k].blk = "retry" /\ events[k].stage = stg
                            /\ events[k].id = id /\ events[k].op = "download"}

RetryPending(id, stg) ==
    /\ InFrame("retry")
    /\ Top.src_id = id /\ Top.stage = stg /\ Top.k = 1

\* one retry for every failed first attempt, and never more than one
RetryOnce ==
    \A id \in Pages : \A stg \in StageOps :
        /\ Cardinality(TryFailures(id, stg)) <= 1
        /\ Cardinality(RetryBlocks(id, stg)) <= Cardinality(TryFailures(id, stg))
        /\ Cardinality(RetryBlocks(id, stg)) < Cardinality(TryFailures(id, stg))
              => RetryPending(id, stg)

\* C3: a failed first attempt of a stage is followed by exactly one retry; a
\* failure inside the retry propagates out of the whole run, after which no
\* stage runs, no index entry is appended and no space is processed.
C3_RetryOnceThenAbort ==
    [][ /\ (InFrame("stage") /\ CallFailed) =>
               /\ status' = "running"
               /\ Len(stack') = Len(stack)
               /\ Last(stack').pc = "retry"
               /\ Last(stack').stage = Top.stage
        /\ (InFrame("retry") /\ CallFailed) =>
               /\ status' = "aborted"
               /\ err' = "stage"
               /\ stack' = <<>>
        /\ (status = "aborted" /\ run' = run) =>
               UNCHANGED <<fs, events, si, seen, stack, status, err>>
        /\ RetryOnce' ]_vars

\* a retry failed while a child page and a further space were still to do
C3_Witness ==
    /\ status = "aborted"
    /\ err = "stage"
    /\ Len(Visits) = 1
    /\ child_lists[Visits[1].id] # <<>>
    /\ si <= Len(spaces)
    /\ Selected(spaces[si])
    /\ spaces[si].homepage # NoHome

\* ---- C9 ----
\* the calls made in the except block of stage stg of page id
RetryOps(id, stg) ==
    LET InBlock(e) == e.blk = "retry" /\ e.stage = stg /\ e.id = id
    IN  SelectSeq(events, InBlock)

\* C9 as claimed: an except block never re-runs a stage earlier than the
\* stage that failed
C9_RetryNeverEarlier ==
    \A k \in 1..Len(events) :
        events[k].blk = "retry" => StageIdx(events[k].op) >= StageIdx(events[k].stage)

\* C9 amended: the except block of a stage re-runs every earlier stage and
\* then the failed stage, in pipeline order, and no later stage
C9_RetryRerunsEarlier ==
    \A id \in Pages : \A stg \in StageOps :
        LET r == RetryOps(id, stg) IN
            /\ Len(r) <= StageIdx(stg)
            /\ \A k \in 1..Len(r) :
                  /\ r[k].op = Stages[k]
                  /\ k < Len(r) => r[k].ok
            /\ (r # <<>> /\ Last(r).ok
                    /\ ~(InFrame("retry") /\ Top.src_id = id /\ Top.stage = stg))
                  => Len(r) = StageIdx(stg)

\* the except block of a failed convert has run to its end
C9_Witness ==
    \E id \in Pages :
        /\ Len(RetryOps(id, "convert")) = 3
        /\ Last(RetryOps(id, "convert")).ok
        /\ Len(RetryOps(id, "modernize")) = 0

\* ---- C10 ----
SpaceEventIdx == {k \in 1..Len(events) : events[k].op = "space"}

\* the visits between the k-th event (a space event) and the next space event
VisitsOfSpace(k) ==
    LET later == {m \in SpaceEventIdx : m > k}
        stop == IF later = {} THEN Len(events) + 1
                ELSE CHOOSE m \in later : \A n \in later : m <= n
    IN  SelectSeq(SubSeq(events, k + 1, stop - 1), IsVisit)

\* C10: the index of every space processed in this run holds exactly one
\* entry per page whose processing has started in that space, in visiting
\* order (so it was created empty before the walk), and no stage of a page
\* runs before the entry of that page is appended.
C10_IndexEntries ==
    /\ \A k \in SpaceEventIdx :
          LET index == Content(fs, events[k].path)
              visits == VisitsOfSpace(k)
              prefix == Dirname(events[k].path) \o <<"/">>
          IN  /\ events[k].path = home_md_path(spaces[events[k].id].key)
              /\ index.kind = "index"
              /\ Len(index.entries) = Len(visits)
              /\ \A m \in 1..Len(visits) :
                    prefix \o index.entries[m] = visits[m].path
    /\ \A j \in 1..Len(events) :
          events[j].op \in StageOps =>
              \E i \in 1..(j - 1) : IsVisit(events[i]) /\ events[i].id = events[j].id

\* the second page of a space is about to start its first stage, in a run
\* that found the index of an earlier run
C10_Witness ==
    /\ run = 2
    /\ InFrame("stage")
    /\ Top.stage = "download"
    /\ Len(stack) = 2
    /\ Len(Content(fs, Top.home_md).entries) = 2

\* ---- C2 ----
RECURSIVE PreOrder(_, _)
RECURSIVE PreOrderList(_, _)
\* a page, then the subtree of each child in listing order (fuel levels deep)
PreOrder(id, fuel) ==
    IF fuel = 0 THEN <<id>>
    ELSE <<id>> \o PreOrderList(child_lists[id], fuel - 1)

PreOrderList(ids, fuel) ==
    IF ids = <<>> THEN <<>>
    ELSE PreOrder(Head(ids), fuel) \o PreOrderList(Tail(ids), fuel)

IsWalked(space) == Selected(space) /\ space.homepage # NoHome

WalkedSpaces == SelectSeq(spaces, IsWalked)

\* the pre-order of the home pages' subtrees, space after space
ExpectedVisits ==
    PreOrderList([k \in 1..Len(WalkedSpaces) |-> WalkedSpaces[k].homepage],
                 Cardinality(Pages))

\* the pages under the home pages form trees with distinct ids
TreeInput == DistinctIds(ExpectedVisits)

NoFailure == \A k \in 1..Len(events) : events[k].ok

\* every stage call of a page comes before the visit of each of its children
StagesBeforeChildren ==
    \A i, j \in 1..Len(events) :
        (/\ events[j].op \in StageOps
         /\ IsVisit(events[i])
         /\ events[i].id \in Range(child_lists[events[j].id])) => j < i

\* the three output files of every visited page are there
AllExported ==
    \A e \in Range(Visits) :
        /\ IsFile(fs, e.path \o ExtDoc)
        /\ IsFile(fs, e.path \o ExtDocx)
        /\ IsFile(fs, e.path \o ExtMd)

\* C2: on trees with distinct ids every run ends; the pages are visited in
\* pre-order (children in listing order, a subtree before the next sibling),
\* every stage of a page before any of its children; and a run without a
\* stage failure ends normally with every page visited exactly once and its
\* three files written.
C2_PreOrderWalk ==
    /\ []<>(status # "running")
    /\ [](TreeInput => IsPrefix(VisitIds, ExpectedVisits) /\ StagesBeforeChildren)
    /\ []((TreeInput /\ NoFailure /\ status # "running") =>
              /\ status = "done"
              /\ VisitIds = ExpectedVisits
              /\ AllExported)

\* a first run over a tree of four pages ended without a failure
C2_Witness ==
    /\ run = 1
    /\ status = "done"
    /\ TreeInput
    /\ NoFailure
    /\ Len(Visits) = 4

\* ---- paths as the specification states them ----
\* the key of the space being walked
WalkedKey == spaces[si - 1].key

\* S(space key), then S(raw title) of the pages of the first k active calls:
\* the ancestors from the home page down and the page itself, each title
\* sanitized once
OnceSanitized(k) ==
    <<sanitize(WalkedKey)>> \o [j \in 1..k |-> sanitize(page_titles[stack[j].src_id])]

\* out_dir joined with those segments
ExpectedBase(k) == Join(OutDir, OnceSanitized(k))

HasDoc(path) == \E i \in 1..Len(path) : MatchAt(path, i, ExtDoc)

Basename(path) ==
    IF SepIdx(path) = {} THEN path
    ELSE SubSeq(path, MaxOf(SepIdx(path)) + 1, Len(path))

\* the same directory, with or without a trailing separator
SameDir(a, b) == RStrip(a, {"/"}) = RStrip(b, {"/"})

\* the convert stage of the page of the innermost call has just succeeded
JustConverted ==
    /\ InFrame("mark")
    /\ events # <<>>
    /\ Last(events).op = "convert"
    /\ Last(events).ok
    /\ Last(events).id = Top.src_id

\* ---- C4 ----
\* C4 as claimed: a call of __dump_page that found its .doc, .docx and .md
\* files makes no download, modernize or convert call and leaves the three
\* files as they were
C4_Idempotent ==
    (Running /\ stack # <<>> /\ Top.pc # "enter" /\ Top.snap.all3) =>
        /\ \A k \in 1..Len(events) :
              events[k].id = Top.src_id => events[k].op \notin StageOps
        /\ Content(fs, Top.doc) = Top.snap.doc
        /\ Content(fs, Top.docx) = Top.snap.docx
        /\ Content(fs, Top.md) = Top.snap.md

\* ---- C5 ----
\* C5 as claimed: the markup file of a page with children is home.md inside
\* the directory named after the sanitized title
C5_HomeInTitleDir ==
    (JustConverted /\ Top.child_ids # <<>>) =>
        Last(events).path =
            Join(ExpectedBase(Len(stack)), << <<"h", "o", "m", "e">> >>) \o ExtMd

\* C5 amended: the markup file of a page with children is named like that of
\* a childless page: it is the .doc path <parent path>/<sanitized title>.doc
\* with ".doc" replaced by ".md", which is <parent path>/<sanitized title>.md
\* when the path holds no other ".doc"; it is not home.md inside the
\* directory named after the title.
C5_NamedAfterTitle ==
    (JustConverted /\ Top.child_ids # <<>>) =>
        LET base == ExpectedBase(Len(stack))
            path == Last(events).path
        IN  /\ path = Replace(base \o ExtDoc, ExtDoc, ExtMd)
            /\ ~HasDoc(base) => path = base \o ExtMd
            /\ path # Join(base, << <<"h", "o", "m", "e">> >>) \o ExtMd
            /\ Content(fs, path).kind = "md"

\* a page with children, below the home page, has just been converted
C5_Witness ==
    /\ JustConverted
    /\ Top.child_ids # <<>>
    /\ Len(stack) = 2
    /\ ~HasDoc(ExpectedBase(2))

\* ---- C6 ----
\* C6 as claimed: a successful export of a childless page writes exactly one
\* markup file, named <sanitized title>.md
C6_LeafNamedAfterTitle ==
    (JustConverted /\ Top.child_ids = <<>>) =>
        /\ Basename(Last(events).path) = sanitize(page_titles[Top.src_id]) \o ExtMd
        /\ \A k \in 1..Len(events) :
              (events[k].op = "convert" /\ events[k].id = Top.src_id)
                  => events[k].path = Last(events).path

\* ---- C7 ----
\* the extension-less output path of every active call is out_dir joined with
\* the once-sanitized segments
C7_Segments ==
    \A k \in 1..Len(stack) :
        stack[k].pc # "enter" =>
            /\ stack[k].media = ExpectedBase(k)
            /\ stack[k].doc = ExpectedBase(k) \o ExtDoc

\* the directory of a child's files is the markup path of its parent without
\* the extension
C7_ChildDirectory ==
    \A k \in 2..Len(stack) :
        stack[k].pc # "enter" =>
            SameDir(Dirname(stack[k].doc), RemoveSuffix(stack[k - 1].md, ExtMd))

\* C7 as claimed: every output path is built from the once-sanitized titles
\* of the ancestors and of the page, and a child's directory is its parent's
\* markup path without the extension
C7_PathsFromOnceSanitized == C7_Segments /\ C7_ChildDirectory

\* ---- C8 ----
HasDotDot(t) == \E i \in 1..Len(t) : MatchAt(t, i, <<".", ".">>)

HasSeparator(t) == \E i \in 1..Len(t) : t[i] \in {"/", "\\"}

\* C8 as claimed: the result of the sanitizer on a title with a ".." or a
\* separator has no "..", has no separator and is not empty
C8_SafeAndNonEmpty ==
    (san.calls = 1 /\ (HasDotDot(san.title) \/ HasSeparator(san.title))) =>
        /\ ~HasDotDot(san.out)
        /\ ~HasSeparator(san.out)
        /\ san.out # <<>>

====
